---- MODULE Spec2Model ----
(***************************************************************************)
(* Model of the Gestor application (src/index.tsx, class GestorApp): the   *)
(* live AppState, the snapshot collection, the two localStorage records,   *)
(* the single modal slot with its pending callback, and the event handlers *)
(* that change them.  Every handler is one action (JavaScript runs each    *)
(* event handler to completion).                                           *)
(*                                                                         *)
(* Representation choices                                                  *)
(*  - Date.now() is the variable now; ids `tx_${Date.now()}` etc. are the  *)
(*    clock reading itself (the prefix is constant per collection).        *)
(*  - A number is kept in sign/magnitude form [neg, mag] so that the IEEE  *)
(*    negative zero produced by `-amount` for amount = 0 is distinct from  *)
(*    0, and JSON.stringify, which prints both as 0, is not the identity.  *)
(*  - A date "YYYY-MM-DD" is the tuple <<y, m, d>>, a month key "YYYY-MM"  *)
(*    the tuple <<y, m>>; startsWith is the prefix test on tuples.         *)
(*  - An AppState object is a record of its three collections plus the set *)
(*    keys of the top-level property names it really has (a collection     *)
(*    whose key is absent is held as <<>> and never read).                 *)
(***************************************************************************)
EXTENDS Integers, Sequences, FiniteSets, TLC

VARIABLES
    now,                    \* reading of Date.now()
    state,                  \* this.state
    snapshots,              \* this.snapshots
    storedState,            \* localStorage['gestor_app_state']
    storedSnapshots,        \* localStorage['gestor_app_snapshots']
    modal,                  \* content of the modal slot and its pending callback
    editingTransactionId,   \* this.editingTransactionId (NoId for null)
    applied,                \* history: the updaters so far, folded over the loaded state
    last,                   \* history: the handler that ran in the last step and its writes
    unsaved,                \* history: TRUE while a setState write has failed and none succeeded since
    spent                   \* history: records brought in and failed writes so far

vars == <<now, state, snapshots, storedState, storedSnapshots, modal,
          editingTransactionId, applied, last, unsaved, spent>>

-----------------------------------------------------------------------------
(* Bounds of the exploration *)

\* the session starts at clock reading 1 and is explored up to MaxClock;
\* reading 0 lies before the session (ids made by an earlier session)
MaxClock == 2

\* a session holds at most MaxBudget costly steps: a record or a snapshot
\* created by hand, a confirmed import, or a handler whose storage write fails
MaxBudget == 2

NoId == -1

-----------------------------------------------------------------------------
(* Numbers *)

(* A JavaScript number is an IEEE 754 double.  Its magnitude is kept as the  *)
(* exact integer magnitude * 2^60, written in base 2^15 with the least       *)
(* significant digit first and no zero digit at the high end (<<>> is        *)
(* zero), so that equal magnitudes are equal sequences.  Every number met    *)
(* here is such a multiple of 2^-60: the amounts typed have two decimals and *)
(* are 0 or at least 0.01, and sums and differences of doubles that are      *)
(* multiples of 2^-59 are such multiples again.  They are far from the       *)
(* overflow threshold of a double.                                           *)

\* significant binary digits of a double
Precision == 53

\* binary digits per digit of a magnitude
Width == 15
Base == 2^Width

\* digits of a magnitude below the unit: 1.0 is <<0, 0, 0, 0, 1>>
Scale == 4

\* the numeral without its high zeros
StripLimbs(ls) ==
    IF \A j \in 1..Len(ls) : ls[j] = 0 THEN <<>>
    ELSE SubSeq(ls, 1, CHOOSE i \in 1..Len(ls) :
                          ls[i] # 0 /\ \A j \in (i + 1)..Len(ls) : ls[j] = 0)

\* the numeral of a natural number below 2^31
NatLimbs(n) == StripLimbs(<<n % Base, (n \div Base) % Base, n \div (Base * Base)>>)

LimbAt(ls, j) == IF j <= Len(ls) THEN ls[j] ELSE 0

RECURSIVE AddLimbs(_, _, _, _)
\* a + b + carry, from digit j on
AddLimbs(a, b, j, carry) ==
    IF j > Len(a) /\ j > Len(b) THEN <<carry>>
    ELSE <<(LimbAt(a, j) + LimbAt(b, j) + carry) % Base>>
            \o AddLimbs(a, b, j + 1, (LimbAt(a, j) + LimbAt(b, j) + carry) \div Base)

RECURSIVE SubLimbs(_, _, _, _)
\* a - b - borrow for a >= b, from digit j on
SubLimbs(a, b, j, borrow) ==
    IF j > Len(a) THEN <<>>
    ELSE <<(a[j] - LimbAt(b, j) - borrow) % Base>>
            \o SubLimbs(a, b, j + 1, IF a[j] - LimbAt(b, j) - borrow < 0 THEN 1 ELSE 0)

\* a < b, for numerals without high zeros
LessLimbs(a, b) ==
    \/ Len(a) < Len(b)
    \/ /\ Len(a) = Len(b)
       /\ \E i \in 1..Len(a) :
             a[i] < b[i] /\ \A j \in (i + 1)..Len(a) : a[j] = b[j]

RECURSIVE DivFrom(_, _, _, _)
\* digits j..1 of ls divided by d with r carried in: quotient and remainder
DivFrom(ls, j, r, d) ==
    IF j = 0 THEN [q |-> <<>>, r |-> r]
    ELSE LET cur == Base * r + ls[j]
             rest == DivFrom(ls, j - 1, cur % d, d)
         IN [q |-> Append(rest.q, cur \div d), r |-> rest.r]

\* the number of binary digits of a numeral
BinaryDigits(ls) ==
    IF ls = <<>> THEN 0
    ELSE Width * (Len(ls) - 1)
            + (CHOOSE k \in 1..Width : ls[Len(ls)] < 2^k /\ ls[Len(ls)] >= 2^(k - 1))

\* the i-th binary digit, the lowest being the first
BitAt(ls, i) == (ls[(i - 1) \div Width + 1] \div 2^((i - 1) % Width)) % 2

\* the d lowest binary digits are all zero
LowZero(ls, d) ==
    /\ \A j \in 1..(d \div Width) : ls[j] = 0
    /\ d % Width = 0 \/ ls[d \div Width + 1] % 2^(d % Width) = 0

\* the numeral with its d lowest binary digits set to zero
Truncate(ls, d) ==
    [j \in 1..Len(ls) |->
        IF j <= d \div Width THEN 0
        ELSE IF j = d \div Width + 1 THEN ls[j] - (ls[j] % 2^(d % Width))
        ELSE ls[j]]

\* the numeral of 2^d
PowerOfTwo(d) ==
    [j \in 1..(d \div Width + 1) |-> IF j = d \div Width + 1 THEN 2^(d % Width) ELSE 0]

\* the numeral (plus a little, when sticky) rounded to Precision significant
\* binary digits, to nearest, ties to even
RoundToDouble(ls, sticky) ==
    LET d == BinaryDigits(ls) - Precision
    IN IF d <= 0 THEN ls
       ELSE IF BitAt(ls, d) = 1 /\ (sticky \/ ~LowZero(ls, d - 1) \/ BitAt(ls, d + 1) = 1)
       THEN StripLimbs(AddLimbs(Truncate(ls, d), PowerOfTwo(d), 1, 0))
       ELSE Truncate(ls, d)

\* the whole number n, and its negative
Pos(n) == [neg |-> FALSE, mag |-> IF n = 0 THEN <<>> ELSE [j \in 1..Scale |-> 0] \o NatLimbs(n)]
Neg(n) == [neg |-> TRUE, mag |-> IF n = 0 THEN <<>> ELSE [j \in 1..Scale |-> 0] \o NatLimbs(n)]

IsZero(a) == a.mag = <<>>

\* parseFloat of the decimal text of cents / 100 (a number input with step
\* 0.01): the double nearest to it.  The division is done with one more low
\* digit, which rounding leaves zero.
parseFloat(cents) ==
    IF cents = 0 THEN Pos(0)
    ELSE LET num == [j \in 1..(Scale + 1) |-> 0] \o NatLimbs(cents)
             dv == DivFrom(num, Len(num), 0, 100)
         IN [neg |-> FALSE, mag |-> Tail(RoundToDouble(StripLimbs(dv.q), dv.r # 0))]

\* unary minus of a double: flips the sign bit, also of zero
Negate(a) == [neg |-> ~a.neg, mag |-> a.mag]

\* x + y in double arithmetic
DoubleAdd(x, y) ==
    CASE x.mag = <<>> /\ y.mag = <<>> -> [neg |-> x.neg /\ y.neg, mag |-> <<>>]
      [] (x.mag # <<>> \/ y.mag # <<>>) /\ x.neg = y.neg ->
            [neg |-> x.neg,
             mag |-> RoundToDouble(StripLimbs(AddLimbs(x.mag, y.mag, 1, 0)), FALSE)]
      [] x.neg # y.neg /\ x.mag = y.mag /\ x.mag # <<>> -> [neg |-> FALSE, mag |-> <<>>]
      [] x.neg # y.neg /\ LessLimbs(x.mag, y.mag) ->
            [neg |-> y.neg,
             mag |-> RoundToDouble(StripLimbs(SubLimbs(y.mag, x.mag, 1, 0)), FALSE)]
      [] OTHER ->
            [neg |-> x.neg,
             mag |-> RoundToDouble(StripLimbs(SubLimbs(x.mag, y.mag, 1, 0)), FALSE)]

\* the numeric value of a double, as `===` and `<` see it (-0 is 0)
Num(a) == IF IsZero(a) THEN [a EXCEPT !.neg = FALSE] ELSE a

\* JSON.stringify of a number followed by JSON.parse: -0 is printed as 0, any
\* other finite double is printed with the digits that read back as itself
JsonNumber(a) == IF IsZero(a) THEN [a EXCEPT !.neg = FALSE] ELSE a

-----------------------------------------------------------------------------
(* Entity model *)

Keys == {"transactions", "clients", "opportunities"}

STAGES == <<"Lead", "Proposta", "Negociacao", "Ganho", "Perdido">>

StageSet == {STAGES[i] : i \in 1..Len(STAGES)}

getInitialState ==
    [keys |-> Keys, transactions |-> <<>>, clients |-> <<>>, opportunities |-> <<>>]

Has(s, k) == k \in s.keys

WellFormed(s) == Keys \subseteq s.keys

Map(s, F(_)) == [i \in 1..Len(s) |-> F(s[i])]

Ids(s) == {s[i].id : i \in 1..Len(s)}

\* JSON.stringify(state) read back by JSON.parse: the same object graph with
\* every number printed and re-read
JsonTransaction(t) == [t EXCEPT !.amount = JsonNumber(t.amount)]

JsonOpportunity(o) == [o EXCEPT !.value = JsonNumber(o.value)]

JsonState(s) ==
    [s EXCEPT !.transactions = Map(s.transactions, JsonTransaction),
              !.opportunities = Map(s.opportunities, JsonOpportunity)]

JsonSnapshot(sn) == [sn EXCEPT !.data = JsonState(sn.data)]

JsonSnapshots(sns) == Map(sns, JsonSnapshot)

\* structural equality of two AppStates with numbers compared by value
NumTransaction(t) == [t EXCEPT !.amount = Num(t.amount)]

NumOpportunity(o) == [o EXCEPT !.value = Num(o.value)]

Shape(s) ==
    [s EXCEPT !.transactions = Map(s.transactions, NumTransaction),
              !.opportunities = Map(s.opportunities, NumOpportunity)]

StructEq(a, b) == Shape(a) = Shape(b)

-----------------------------------------------------------------------------
(* localStorage records *)

Absent == [tag |-> "absent", doc |-> getInitialState]
Corrupt == [tag |-> "corrupt", doc |-> getInitialState]
Json(doc) == [tag |-> "json", doc |-> doc]

AbsentList == [tag |-> "absent", doc |-> <<>>]
CorruptList == [tag |-> "corrupt", doc |-> <<>>]

\* loadState: the parsed record, or the initial state when the record is
\* absent or JSON.parse throws.  What parses is returned as it is.
loadState(rec) == IF rec.tag = "json" THEN rec.doc ELSE getInitialState

\* loadSnapshots: the same for the snapshot record
loadSnapshots(rec) == IF rec.tag = "json" THEN rec.doc ELSE <<>>

\* variant of saveState that serialises the state object held before the
\* assignment of the new one
saveStateBefore(st, ok, old) == IF ok THEN Json(JsonState(state)) ELSE old

\* variant of saveState that removes the record before it writes it, so a
\* failed write leaves no record
saveStateClearing(st, ok, old) == IF ok THEN Json(JsonState(st)) ELSE Absent

\* variant of saveState that writes only while the record still mirrors the
\* live state, and so gives up once a write was lost
saveStateOnce(st, ok, old) ==
    IF ok /\ old = Json(JsonState(state)) THEN Json(JsonState(st)) ELSE old

\* saveState: setItem(key, JSON.stringify(this.state)) inside try/catch; when
\* setItem throws the error is logged to the console and the record is kept
saveState(st, ok, old) == IF ok THEN Json(JsonState(st)) ELSE old

\* saveSnapshots: the same for the snapshot record
saveSnapshots(sns, ok, old) == IF ok THEN Json(JsonSnapshots(sns)) ELSE old

-----------------------------------------------------------------------------
(* Rendering: which collections a screen's render dereferences *)

\* TRUE when rendering `screen` throws a TypeError on state s (a collection
\* the render reads is undefined), so the listeners set after it are missing
RenderThrows(screen, tab, s) ==
    CASE screen = "painel" -> ~Has(s, "transactions")
      [] screen = "financas" -> ~Has(s, "transactions")
      [] screen = "vendas" ->
            IF tab = "pipeline"
            THEN ~Has(s, "opportunities")
                 \/ (Len(s.opportunities) > 0 /\ ~Has(s, "clients"))
            ELSE ~Has(s, "clients")
      [] OTHER -> FALSE

\* The screen shown (this.activeScreen, this.activeSalesTab) is not a variable
\* of the model: navigateTo changes nothing else, the sidebar and the tab
\* buttons work whenever the modal is hidden, so a control of a screen can
\* be operated exactly when that screen renders on the current state.  A
\* form or dialog stays on the screen that opened it (see ModalHidden), which
\* is therefore the screen setState re-renders for its callback.
Reachable(screen, tab) == ~RenderThrows(screen, tab, state)

-----------------------------------------------------------------------------
(* The modal slot *)

NoModal ==
    [kind |-> "none", title |-> "", msg |-> "", id |-> NoId, doc |-> 0,
     file |-> getInitialState, options |-> {}]

\* showAlertModal(message, title = 'Aviso')
Alert(msg, title) == [NoModal EXCEPT !.kind = "alert", !.title = title, !.msg = msg]

\* showConfirmationModal(message, onConfirm): msg names the callback, id and
\* doc are the values its closure captured
Confirm(msg, id, doc) ==
    [NoModal EXCEPT !.kind = "confirm", !.title = "Confirmar", !.msg = msg, !.id = id,
                    !.doc = doc]

\* the confirmation of an import: its callback keeps the parsed object newState
ConfirmFile(newState) == [Confirm("loadBackup", NoId, 0) EXCEPT !.file = newState]

\* the opportunity and client forms opened for `id` (NoId: a new record)
Form(kind, id) == [NoModal EXCEPT !.kind = kind, !.id = id]

\* the wipe dialog; msg tells whether its confirm button is enabled
WipeDialog(enabled) ==
    [NoModal EXCEPT !.kind = "wipe", !.msg = IF enabled THEN "enabled" ELSE "disabled"]

\* The modal container is a backdrop laid over the page: a click that lands
\* on it hides the modal (showModal's listener), so the controls of the page
\* are operated only while the modal is hidden.  Callbacks that the browser
\* runs on its own (FileReader.onload) are not held back by it.
ModalHidden == modal.kind = "none"

-----------------------------------------------------------------------------
(* Construction *)

\* a client an earlier session created (its id is an earlier clock reading)
DocClient == [id |-> 0, name |-> "n0", company |-> "", email |-> "", phone |-> ""]

\* a complete AppState holding that client
DocValid == [keys |-> Keys, transactions |-> <<>>, clients |-> <<DocClient>>,
             opportunities |-> <<>>]

\* a JSON object that has the clients key only
PartialDoc == [getInitialState EXCEPT !.keys = {"clients"}]

\* the records localStorage may hold when the page is first opened
InitialRecords ==
    {<<Absent, CorruptList>>, <<Corrupt, AbsentList>>,
     <<Json(PartialDoc), AbsentList>>, <<Json(DocValid), CorruptList>>}

\* no handler that writes ran in the last step
Idle == [op |-> "none", stateWrite |-> "none", snapWrite |-> "none", recovered |-> FALSE]

\* the constructor ran in the last step (or the behaviour starts with it)
Started == [op |-> "construct", stateWrite |-> "none", snapWrite |-> "none", recovered |-> FALSE]

\* new GestorApp(): loadState, loadSnapshots, init -> navigateTo('painel')
Constructed(stRec, snRec) ==
    /\ state = loadState(stRec)
    /\ snapshots = loadSnapshots(snRec)
    /\ storedState = stRec
    /\ storedSnapshots = snRec
    /\ modal = NoModal
    /\ editingTransactionId = NoId
    /\ applied = loadState(stRec)
    /\ last = Started
    /\ unsaved = FALSE
    /\ spent = 0

Init ==
    /\ now = 1
    /\ \E recs \in InitialRecords : Constructed(recs[1], recs[2])

\* variant of the construction with one try/catch around both loads: when
\* either record fails to load, both values fall back to their empty value
ReloadTogether ==
    /\ state' = IF storedState.tag = "json" /\ storedSnapshots.tag = "json"
                THEN loadState(storedState) ELSE getInitialState
    /\ snapshots' = IF storedState.tag = "json" /\ storedSnapshots.tag = "json"
                    THEN loadSnapshots(storedSnapshots) ELSE <<>>
    /\ modal' = NoModal
    /\ editingTransactionId' = NoId
    /\ applied' = state'
    /\ last' = Started
    /\ unsaved' = FALSE
    /\ UNCHANGED <<now, storedState, storedSnapshots, spent>>

\* the page is reloaded: a new GestorApp is built from the two records
Reload ==
    /\ state' = loadState(storedState)
    /\ snapshots' = loadSnapshots(storedSnapshots)
    /\ modal' = NoModal
    /\ editingTransactionId' = NoId
    /\ applied' = loadState(storedState)
    /\ last' = Started
    /\ unsaved' = FALSE
    /\ UNCHANGED <<now, storedState, storedSnapshots, spent>>

-----------------------------------------------------------------------------
(* Environment *)

\* time passes
Tick ==
    /\ now < MaxClock
    /\ now' = now + 1
    /\ last' = Idle
    /\ UNCHANGED <<state, snapshots, storedState, storedSnapshots, modal, editingTransactionId, applied, unsaved, spent>>

-----------------------------------------------------------------------------
(* Frames and history *)

\* what a handler that only touches the modal slot or the edit selection
\* leaves alone
Quiet ==
    /\ last' = Idle
    /\ UNCHANGED <<now, state, snapshots, storedState, storedSnapshots, applied, unsaved, spent>>

Outcome(ok) == IF ok THEN "ok" ELSE "failed"

\* history of a handler `op` whose write of the state record had outcome
\* stateWrite and whose write of the snapshot record had outcome snapWrite
\* ("none": the handler does not write that record)
Logged(op, stateWrite, snapWrite) ==
    /\ last' = [op |-> op, stateWrite |-> stateWrite, snapWrite |-> snapWrite,
                recovered |-> unsaved]
    /\ unsaved' = IF stateWrite = "none" THEN unsaved
                  ELSE (op = "setState" /\ stateWrite = "failed")

\* bookkeeping of the exploration budget: brings tells whether the handler
\* brings a record or a snapshot in, failed whether a write of it failed
Spend(brings, failed) ==
    LET cost == (IF brings THEN 1 ELSE 0) + (IF failed THEN 1 ELSE 0)
    IN /\ spent + cost <= MaxBudget
       /\ spent' = spent + cost

-----------------------------------------------------------------------------
(* The modal's own buttons *)

\* hideModal: the close button, a click outside, OK of an alert, Cancel of a confirmation
HideModal ==
    /\ modal.kind # "none"
    /\ modal' = NoModal
    /\ UNCHANGED editingTransactionId
    /\ Quiet

-----------------------------------------------------------------------------
(* The store *)

\* variant of setState that keeps the previous live state when the write fails
setStateIfSaved(next, ok) ==
    /\ state' = IF ok THEN next ELSE state
    /\ storedState' = saveState(next, ok, storedState)

\* setState(updater) with next = updater(this.state): the live state is
\* replaced and saveState runs (ok: setItem does not throw); then
\* navigateTo(this.activeScreen) re-renders
setState(next, ok) ==
    /\ state' = next
    /\ storedState' = saveState(next, ok, storedState)

\* what follows a setState call in a handler runs only if the re-render
\* inside setState did not throw
Rendered(screen, tab, next) == ~RenderThrows(screen, tab, next)

-----------------------------------------------------------------------------
(* Updaters: the functions handed to setState *)

\* prev => ({...prev, transactions: [...prev.transactions, tx]})
addTransaction(prev, tx) ==
    [prev EXCEPT !.keys = @ \cup {"transactions"}, !.transactions = Append(@, tx)]

\* prev => ({...prev, transactions: prev.transactions.map(tx =>
\*     tx.id === editing ? {...tx, description, amount, date, type} : tx)})
editTransaction(prev, editing, description, amount, date, type) ==
    [prev EXCEPT !.keys = @ \cup {"transactions"},
                 !.transactions = [i \in 1..Len(@) |->
                     IF @[i].id = editing
                     THEN [@[i] EXCEPT !.description = description, !.amount = amount,
                                       !.date = date, !.type = type]
                     ELSE @[i]]]

\* prev => ({...prev, transactions: prev.transactions.filter(t => t.id !== id)})
deleteTransaction(prev, id) ==
    [prev EXCEPT !.keys = @ \cup {"transactions"},
                 !.transactions = SelectSeq(@, LAMBDA t : t.id # id)]

\* prev => ({...prev, clients: [...prev.clients, client]})
addClient(prev, client) ==
    [prev EXCEPT !.keys = @ \cup {"clients"}, !.clients = Append(@, client)]

\* prev => ({...prev, clients: prev.clients.map(c => c.id === id ? {...c, name, ...} : c)})
editClient(prev, id, name, company, email, phone) ==
    [prev EXCEPT !.keys = @ \cup {"clients"},
                 !.clients = [i \in 1..Len(@) |->
                     IF @[i].id = id
                     THEN [@[i] EXCEPT !.name = name, !.company = company,
                                       !.email = email, !.phone = phone]
                     ELSE @[i]]]

\* prev => ({...prev, clients: prev.clients.filter(c => c.id !== id)})
deleteClient(prev, id) ==
    [prev EXCEPT !.keys = @ \cup {"clients"},
                 !.clients = SelectSeq(@, LAMBDA c : c.id # id)]

\* prev => ({...prev, opportunities: [...prev.opportunities, op]})
addOpportunity(prev, op) ==
    [prev EXCEPT !.keys = @ \cup {"opportunities"}, !.opportunities = Append(@, op)]

\* prev => ({...prev, opportunities: prev.opportunities.map(o =>
\*     o.id === id ? {...o, title, value, clientId} : o)})
editOpportunity(prev, id, title, value, clientId) ==
    [prev EXCEPT !.keys = @ \cup {"opportunities"},
                 !.opportunities = [i \in 1..Len(@) |->
                     IF @[i].id = id
                     THEN [@[i] EXCEPT !.title = title, !.value = value,
                                       !.clientId = clientId]
                     ELSE @[i]]]

\* prev => ({...prev, opportunities: prev.opportunities.map(op =>
\*     op.id === opId ? {...op, stage: targetStage} : op)})
moveOpportunity(prev, opId, targetStage) ==
    [prev EXCEPT !.keys = @ \cup {"opportunities"},
                 !.opportunities = [i \in 1..Len(@) |->
                     IF @[i].id = opId THEN [@[i] EXCEPT !.stage = targetStage] ELSE @[i]]]

\* prev => ({...prev, opportunities: prev.opportunities.filter(o => o.id !== id)})
deleteOpportunity(prev, id) ==
    [prev EXCEPT !.keys = @ \cup {"opportunities"},
                 !.opportunities = SelectSeq(@, LAMBDA o : o.id # id)]

-----------------------------------------------------------------------------
(* Finance screen *)

\* what the user can enter in the transaction form
Descriptions == {"d1"}
AmountInputs == {Pos(0), Neg(1)}
Types == {"receita", "despesa"}
Dates == {<<2024, 5, 10>>}

\* const signedAmount = type === 'receita' ? amount : -amount
signedAmount(type, amount) == IF type = "receita" THEN amount ELSE Negate(amount)

FinancasLive == ModalHidden /\ Reachable("financas", "pipeline")

\* the pencil button of a listed transaction
EditTransactionClick(id) ==
    /\ FinancasLive
    /\ id \in Ids(state.transactions)
    /\ editingTransactionId' = id
    /\ UNCHANGED modal
    /\ Quiet

\* the Cancelar button, rendered while an edit is selected
CancelEdit ==
    /\ FinancasLive
    /\ editingTransactionId # NoId
    /\ editingTransactionId' = NoId
    /\ UNCHANGED modal
    /\ Quiet

\* handleTransactionFormSubmit with every field filled
SubmitTransaction(description, amount, type, date, ok) ==
    /\ FinancasLive
    /\ IF editingTransactionId # NoId
       THEN /\ setState(editTransaction(state, editingTransactionId, description,
                                        signedAmount(type, amount), date, type), ok)
            /\ applied' = editTransaction(applied, editingTransactionId, description,
                                          signedAmount(type, amount), date, type)
            /\ editingTransactionId' = NoId
            /\ Spend(FALSE, ~ok)
       ELSE /\ Spend(TRUE, ~ok)
            /\ LET newTransaction == [id |-> now, description |-> description,
                                      amount |-> signedAmount(type, amount),
                                      date |-> date, type |-> type]
               IN /\ setState(addTransaction(state, newTransaction), ok)
                  /\ applied' = addTransaction(applied, newTransaction)
            /\ UNCHANGED editingTransactionId
    /\ Logged("setState", Outcome(ok), "none")
    /\ UNCHANGED <<now, snapshots, storedSnapshots, modal>>

\* handleDeleteTransaction(id): asks for confirmation
DeleteTransactionClick(id) ==
    /\ FinancasLive
    /\ id \in Ids(state.transactions)
    /\ modal' = Confirm("deleteTransaction", id, 0)
    /\ UNCHANGED editingTransactionId
    /\ Quiet

\* Confirmar on that dialog: hideModal, then the setState of the callback
ConfirmDeleteTransaction(ok) ==
    /\ modal.kind = "confirm" /\ modal.msg = "deleteTransaction"
    /\ Has(state, "transactions")
    /\ modal' = NoModal
    /\ setState(deleteTransaction(state, modal.id), ok)
    /\ applied' = deleteTransaction(applied, modal.id)
    /\ Spend(FALSE, ~ok)
    /\ Logged("setState", Outcome(ok), "none")
    /\ UNCHANGED <<now, snapshots, storedSnapshots, editingTransactionId>>

-----------------------------------------------------------------------------
(* Sales screen: clients *)

ClientNames == {"n1"}

ClientesLive ==
    ModalHidden /\ Reachable("vendas", "clientes")

\* showClientForm(id): Adicionar Cliente (NoId) or the pencil of a listed client
ShowClientForm(id) ==
    /\ ClientesLive
    /\ id \in Ids(state.clients) \cup {NoId}
    /\ modal' = Form("clientForm", id)
    /\ UNCHANGED editingTransactionId
    /\ Quiet

\* submit of the client form
SubmitClientForm(name, ok) ==
    /\ modal.kind = "clientForm"
    /\ Has(state, "clients")
    /\ LET next == IF modal.id # NoId
                   THEN editClient(state, modal.id, name, "", "", "")
                   ELSE addClient(state, [id |-> now, name |-> name, company |-> "",
                                          email |-> "", phone |-> ""])
           nextApplied == IF modal.id # NoId
                   THEN editClient(applied, modal.id, name, "", "", "")
                   ELSE addClient(applied, [id |-> now, name |-> name, company |-> "",
                                            email |-> "", phone |-> ""])
       IN /\ Spend(modal.id = NoId, ~ok)
          /\ setState(next, ok)
          /\ applied' = nextApplied
          /\ modal' = IF Rendered("vendas", "clientes", next) THEN NoModal ELSE modal
    /\ Logged("setState", Outcome(ok), "none")
    /\ UNCHANGED <<now, snapshots, storedSnapshots, editingTransactionId>>

\* variant of handleDeleteClient without the referential check
DeleteClientClickUnguarded(id) ==
    /\ ClientesLive
    /\ id \in Ids(state.clients)
    /\ Has(state, "opportunities")
    /\ modal' = Confirm("deleteClient", id, 0)
    /\ UNCHANGED editingTransactionId
    /\ Quiet

\* variant of handleDeleteClient that looks for referencing opportunities in
\* the state record of localStorage instead of the live state
DeleteClientClickCheckingStored(id) ==
    /\ ClientesLive
    /\ id \in Ids(state.clients)
    /\ Has(state, "opportunities")
    /\ modal' = IF \E i \in 1..Len(loadState(storedState).opportunities) :
                      loadState(storedState).opportunities[i].clientId = id
                THEN Alert("clientHasOpportunities", "Aviso")
                ELSE Confirm("deleteClient", id, 0)
    /\ UNCHANGED editingTransactionId
    /\ Quiet

\* handleDeleteClient(id): refused while an opportunity references the client
DeleteClientClick(id) ==
    /\ ClientesLive
    /\ id \in Ids(state.clients)
    /\ Has(state, "opportunities")
    /\ modal' = IF \E i \in 1..Len(state.opportunities) : state.opportunities[i].clientId = id
                THEN Alert("clientHasOpportunities", "Aviso")
                ELSE Confirm("deleteClient", id, 0)
    /\ UNCHANGED editingTransactionId
    /\ Quiet

ConfirmDeleteClient(ok) ==
    /\ modal.kind = "confirm" /\ modal.msg = "deleteClient"
    /\ Has(state, "clients")
    /\ modal' = NoModal
    /\ setState(deleteClient(state, modal.id), ok)
    /\ applied' = deleteClient(applied, modal.id)
    /\ Spend(FALSE, ~ok)
    /\ Logged("setState", Outcome(ok), "none")
    /\ UNCHANGED <<now, snapshots, storedSnapshots, editingTransactionId>>

-----------------------------------------------------------------------------
(* Sales screen: pipeline *)

Titles == {"o1"}
Values == {Pos(1)}

PipelineLive ==
    ModalHidden /\ Reachable("vendas", "pipeline")

\* variant of the options that offers every id, whether or not a client of
\* the state has it
clientOptionsOfAnyId(s) == 0..MaxClock

\* the options of the client select of the opportunity form: one per client,
\* its value the client's id
clientOptions(s) == Ids(s.clients)

\* showOpportunityForm(id): Adicionar Oportunidade (NoId) or the pencil of a
\* card; the form is rendered once, with the options of the state it opens on
ShowOpportunityForm(id) ==
    /\ PipelineLive
    /\ Has(state, "clients")
    /\ id \in Ids(state.opportunities) \cup {NoId}
    /\ modal' = [Form("opportunityForm", id) EXCEPT !.options = clientOptions(state)]
    /\ UNCHANGED editingTransactionId
    /\ Quiet

\* submit of the opportunity form: the browser lets the form be submitted
\* only with an option of the required select chosen
SubmitOpportunityForm(title, value, clientId, ok) ==
    /\ modal.kind = "opportunityForm"
    /\ Has(state, "opportunities")
    /\ clientId \in modal.options
    /\ LET newOp == [id |-> now, title |-> title, value |-> value,
                     clientId |-> clientId, stage |-> "Lead"]
           next == IF modal.id # NoId
                   THEN editOpportunity(state, modal.id, title, value, clientId)
                   ELSE addOpportunity(state, newOp)
           nextApplied == IF modal.id # NoId
                   THEN editOpportunity(applied, modal.id, title, value, clientId)
                   ELSE addOpportunity(applied, newOp)
       IN /\ Spend(modal.id = NoId, ~ok)
          /\ setState(next, ok)
          /\ applied' = nextApplied
          /\ modal' = IF Rendered("vendas", "pipeline", next) THEN NoModal ELSE modal
    /\ Logged("setState", Outcome(ok), "none")
    /\ UNCHANGED <<now, snapshots, storedSnapshots, editingTransactionId>>

\* a card is dropped on a column of the board
DropOnColumn(opId, targetStage, ok) ==
    /\ PipelineLive
    /\ opId \in Ids(state.opportunities)
    /\ setState(moveOpportunity(state, opId, targetStage), ok)
    /\ applied' = moveOpportunity(applied, opId, targetStage)
    /\ Spend(FALSE, ~ok)
    /\ Logged("setState", Outcome(ok), "none")
    /\ UNCHANGED <<now, snapshots, storedSnapshots, modal, editingTransactionId>>

\* handleDeleteOpportunity(id): asks for confirmation
DeleteOpportunityClick(id) ==
    /\ PipelineLive
    /\ id \in Ids(state.opportunities)
    /\ modal' = Confirm("deleteOpportunity", id, 0)
    /\ UNCHANGED editingTransactionId
    /\ Quiet

ConfirmDeleteOpportunity(ok) ==
    /\ modal.kind = "confirm" /\ modal.msg = "deleteOpportunity"
    /\ Has(state, "opportunities")
    /\ modal' = NoModal
    /\ setState(deleteOpportunity(state, modal.id), ok)
    /\ applied' = deleteOpportunity(applied, modal.id)
    /\ Spend(FALSE, ~ok)
    /\ Logged("setState", Outcome(ok), "none")
    /\ UNCHANGED <<now, snapshots, storedSnapshots, editingTransactionId>>

-----------------------------------------------------------------------------
(* History screen: snapshots *)

\* what the user can type as a snapshot name
NameInputs == {" ", " Q1 "}

\* variant of the name read without trim()
TrimNothing(str) == str

\* String.prototype.trim on those inputs
Trim(str) == CASE str = " " -> ""
               [] str = " Q1 " -> "Q1"
               [] OTHER -> str

HistoricoLive == ModalHidden /\ Reachable("historico", "pipeline")

\* the snapshot ids handlers may be called with
SnapshotIds == 0..MaxClock

\* this.snapshots.find(s => s.id === id): position of the first match, 0 if none
FindSnapshot(sns, id) ==
    IF \E i \in 1..Len(sns) : sns[i].id = id
    THEN CHOOSE i \in 1..Len(sns) : sns[i].id = id /\ \A j \in 1..(i - 1) : sns[j].id # id
    ELSE 0

\* variant of handleCreateSnapshot that overwrites the data of the snapshots
\* already saved under the same name before it appends the new one
handleCreateSnapshotOverName(nameInput, ok) ==
    /\ HistoricoLive
    /\ Trim(nameInput) # ""
    /\ Spend(TRUE, ~ok)
    /\ LET newSnapshot == [id |-> now, name |-> Trim(nameInput),
                           timestamp |-> now, data |-> JsonState(state)]
           kept == [i \in 1..Len(snapshots) |->
                       IF snapshots[i].name = newSnapshot.name
                       THEN [snapshots[i] EXCEPT !.data = newSnapshot.data]
                       ELSE snapshots[i]]
       IN /\ snapshots' = Append(kept, newSnapshot)
          /\ storedSnapshots' = saveSnapshots(Append(kept, newSnapshot), ok, storedSnapshots)
    /\ modal' = Alert("snapshotCreated", "Sucesso")
    /\ Logged("createSnapshot", "none", Outcome(ok))
    /\ UNCHANGED <<now, state, storedState, editingTransactionId, applied>>

\* handleCreateSnapshot: the id and the timestamp are readings of Date.now()
\* taken in the same run of the handler, the data is a JSON copy of the live state
handleCreateSnapshot(nameInput, ok) ==
    /\ HistoricoLive
    /\ IF Trim(nameInput) = ""
       THEN /\ modal' = Alert("snapshotNameMissing", "Aviso")
            /\ last' = Idle
            /\ UNCHANGED <<snapshots, storedSnapshots, spent, unsaved>>
       ELSE /\ Spend(TRUE, ~ok)
            /\ LET newSnapshot == [id |-> now, name |-> Trim(nameInput),
                                   timestamp |-> now, data |-> JsonState(state)]
               IN /\ snapshots' = Append(snapshots, newSnapshot)
                  /\ storedSnapshots' = saveSnapshots(Append(snapshots, newSnapshot),
                                                      ok, storedSnapshots)
            /\ modal' = Alert("snapshotCreated", "Sucesso")
            /\ Logged("createSnapshot", "none", Outcome(ok))
    /\ UNCHANGED <<now, state, storedState, editingTransactionId, applied>>

\* handleRestoreSnapshot(id): returns when no snapshot has the id, otherwise
\* asks for confirmation; the callback keeps the snapshot object it found
handleRestoreSnapshot(id) ==
    /\ HistoricoLive
    /\ modal' = IF FindSnapshot(snapshots, id) = 0 THEN modal
                ELSE Confirm("restoreSnapshot", id, FindSnapshot(snapshots, id))
    /\ UNCHANGED editingTransactionId
    /\ Quiet

\* variant of the restore callback that takes the restored snapshot out of
\* the collection
ConfirmRestoreSnapshotConsuming(ok) ==
    /\ modal.kind = "confirm" /\ modal.msg = "restoreSnapshot"
    /\ state' = JsonState(snapshots[modal.doc].data)
    /\ storedState' = saveState(JsonState(snapshots[modal.doc].data), ok, storedState)
    /\ snapshots' = SelectSeq(snapshots, LAMBDA sn : sn.id # modal.id)
    /\ storedSnapshots' = saveSnapshots(snapshots', ok, storedSnapshots)
    /\ modal' = Alert("restored", "Sucesso")
    /\ applied' = JsonState(snapshots[modal.doc].data)
    /\ Spend(FALSE, ~ok)
    /\ Logged("restore", Outcome(ok), "none")
    /\ UNCHANGED <<now, editingTransactionId>>

\* Confirmar on the restore dialog
ConfirmRestoreSnapshot(ok) ==
    /\ modal.kind = "confirm" /\ modal.msg = "restoreSnapshot"
    /\ state' = JsonState(snapshots[modal.doc].data)
    /\ storedState' = saveState(JsonState(snapshots[modal.doc].data), ok, storedState)
    /\ modal' = Alert("restored", "Sucesso")
    /\ applied' = JsonState(snapshots[modal.doc].data)
    /\ Spend(FALSE, ~ok)
    /\ Logged("restore", Outcome(ok), "none")
    /\ UNCHANGED <<now, snapshots, storedSnapshots, editingTransactionId>>

\* handleDeleteSnapshot(id): returns when no snapshot has the id, otherwise
\* asks for confirmation
handleDeleteSnapshot(id) ==
    /\ HistoricoLive
    /\ modal' = IF FindSnapshot(snapshots, id) = 0 THEN modal
                ELSE Confirm("deleteSnapshot", id, 0)
    /\ UNCHANGED editingTransactionId
    /\ Quiet

\* this.snapshots.filter(s => s.id !== id)
removeSnapshot(sns, id) == SelectSeq(sns, LAMBDA sn : sn.id # id)

\* Confirmar on the delete dialog
ConfirmDeleteSnapshot(ok) ==
    /\ modal.kind = "confirm" /\ modal.msg = "deleteSnapshot"
    /\ snapshots' = removeSnapshot(snapshots, modal.id)
    /\ storedSnapshots' = saveSnapshots(removeSnapshot(snapshots, modal.id),
                                        ok, storedSnapshots)
    /\ modal' = Alert("snapshotDeleted", "Sucesso")
    /\ Spend(FALSE, ~ok)
    /\ Logged("deleteSnapshot", "none", Outcome(ok))
    /\ UNCHANGED <<now, state, storedState, editingTransactionId, applied>>

-----------------------------------------------------------------------------
(* History screen: the listing *)

\* sn put into a list that is ordered by timestamp descending, behind the
\* entries whose timestamp is not smaller (what a stable sort does with the
\* later of two equal elements)
InsertByTimestamp(sorted, sn) ==
    LET k == Cardinality({i \in 1..Len(sorted) : sorted[i].timestamp >= sn.timestamp})
    IN SubSeq(sorted, 1, k) \o <<sn>> \o SubSeq(sorted, k + 1, Len(sorted))

\* the same, but in front of the entries with an equal timestamp
InsertBeforeEqual(sorted, sn) ==
    LET k == Cardinality({i \in 1..Len(sorted) : sorted[i].timestamp > sn.timestamp})
    IN SubSeq(sorted, 1, k) \o <<sn>> \o SubSeq(sorted, k + 1, Len(sorted))

RECURSIVE sortedSnapshotsTiesReversed(_)
\* variant of the listing whose sort puts the later of two equal timestamps first
sortedSnapshotsTiesReversed(sns) ==
    IF sns = <<>> THEN <<>>
    ELSE InsertBeforeEqual(sortedSnapshotsTiesReversed(SubSeq(sns, 1, Len(sns) - 1)),
                           sns[Len(sns)])

RECURSIVE sortedSnapshots(_)
\* renderHistorico: [...this.snapshots].sort((a, b) => b.timestamp - a.timestamp),
\* Array.prototype.sort being stable; the copy is sorted, this.snapshots is not
sortedSnapshots(sns) ==
    IF sns = <<>> THEN <<>>
    ELSE InsertByTimestamp(sortedSnapshots(SubSeq(sns, 1, Len(sns) - 1)), sns[Len(sns)])

-----------------------------------------------------------------------------
(* Backup export and import *)

\* variant of saveBackup that leaves the clients out of the document
saveBackupWithoutClients(s) == [JsonState(s) EXCEPT !.clients = <<>>]

\* saveBackup: the document downloaded is JSON.stringify(this.state, null, 2);
\* it is given here as the object that text parses to
saveBackup(s) == JsonState(s)

\* the files the user may pick: text that JSON.parse rejects, a JSON value
\* that is no object, objects lacking one or two of the three keys, an
\* object that has the three keys, and one that has a fourth key as well
Garbage == [syntax |-> "garbage", value |-> getInitialState]
Primitive == [syntax |-> "primitive", value |-> getInitialState]
Object(v) == [syntax |-> "object", value |-> v]

BackupDocs ==
    << Garbage,
       Primitive,
       Object(PartialDoc),
       Object([DocValid EXCEPT !.keys = Keys \ {"transactions"}]),
       Object([DocValid EXCEPT !.keys = Keys \ {"clients"}, !.clients = <<>>]),
       Object([DocValid EXCEPT !.keys = Keys \ {"opportunities"}]),
       Object(DocValid),
       Object([DocValid EXCEPT !.keys = Keys \cup {"version"}]) >>

\* the files at hand: those above and the backup saved from the live state
BackupFiles == {BackupDocs[i] : i \in 1..Len(BackupDocs)} \cup {Object(saveBackup(state))}

\* JSON.parse(text) throws
ParseThrows(doc) == doc.syntax = "garbage"

\* 'transactions' in newState && 'clients' in newState && 'opportunities' in newState;
\* the `in` operator throws a TypeError when newState is no object
InThrows(doc) == doc.syntax = "primitive"

\* variant of the key test that looks for the clients key only
HasClientsKey(doc) == "clients" \in doc.value.keys

HasRequiredKeys(doc) ==
    "transactions" \in doc.value.keys /\ "clients" \in doc.value.keys
        /\ "opportunities" \in doc.value.keys

\* variant of loadBackup that applies a file that has the keys at once
loadBackupUnconfirmed(doc) ==
    /\ ~(ParseThrows(doc) \/ InThrows(doc))
    /\ HasRequiredKeys(doc)
    /\ state' = doc.value
    /\ storedState' = saveState(doc.value, TRUE, storedState)
    /\ modal' = Alert("backupLoaded", "Sucesso")
    /\ applied' = doc.value
    /\ Spend(TRUE, FALSE)
    /\ Logged("import", "ok", "none")
    /\ UNCHANGED <<now, snapshots, storedSnapshots, editingTransactionId>>

\* loadBackup, from reader.onload on, for the file doc
loadBackup(doc) ==
    /\ modal' = IF ParseThrows(doc) \/ InThrows(doc)
                THEN Alert("backupReadError", "Erro")
                ELSE IF HasRequiredKeys(doc)
                     THEN ConfirmFile(doc.value)
                     ELSE Alert("backupInvalid", "Erro")
    /\ UNCHANGED editingTransactionId
    /\ Quiet

\* Confirmar on the import dialog: this.state = newState
ConfirmLoadBackup(ok) ==
    /\ modal.kind = "confirm" /\ modal.msg = "loadBackup"
    /\ state' = modal.file
    /\ storedState' = saveState(modal.file, ok, storedState)
    /\ modal' = Alert("backupLoaded", "Sucesso")
    /\ applied' = modal.file
    /\ Spend(TRUE, ~ok)
    /\ Logged("import", Outcome(ok), "none")
    /\ UNCHANGED <<now, snapshots, storedSnapshots, editingTransactionId>>

-----------------------------------------------------------------------------
(* Reports screen: wipe *)

WipeTexts == {"ZERAR", "zerar"}

\* showWipeDataConfirmation: the dialog opens with its button disabled
showWipeDataConfirmation ==
    /\ ModalHidden /\ Reachable("relatorios", "pipeline")
    /\ modal' = WipeDialog(FALSE)
    /\ UNCHANGED editingTransactionId
    /\ Quiet

\* the input listener: confirmBtn.disabled = input.value !== 'ZERAR'
TypeWipeText(text) ==
    /\ modal.kind = "wipe"
    /\ modal' = WipeDialog(text = "ZERAR")
    /\ UNCHANGED editingTransactionId
    /\ Quiet

\* variant of the wipe that resets and saves the state only and leaves the
\* snapshots and their record alone
ConfirmWipeOfState(okState, okSnaps) ==
    /\ modal.kind = "wipe" /\ modal.msg = "enabled"
    /\ state' = getInitialState
    /\ storedState' = saveState(getInitialState, okState, storedState)
    /\ modal' = Alert("wiped", "Operacao Concluida")
    /\ applied' = getInitialState
    /\ Spend(FALSE, ~okState \/ ~okSnaps)
    /\ Logged("wipe", Outcome(okState), Outcome(okSnaps))
    /\ UNCHANGED <<now, editingTransactionId, snapshots, storedSnapshots>>

\* click on the enabled confirm button: both collections are reset and saved
\* (okState, okSnaps: the setItem of each record does not throw)
ConfirmWipe(okState, okSnaps) ==
    /\ modal.kind = "wipe" /\ modal.msg = "enabled"
    /\ state' = getInitialState
    /\ storedState' = saveState(getInitialState, okState, storedState)
    /\ snapshots' = <<>>
    /\ storedSnapshots' = saveSnapshots(<<>>, okSnaps, storedSnapshots)
    /\ modal' = Alert("wiped", "Operacao Concluida")
    /\ applied' = getInitialState
    /\ Spend(FALSE, ~okState \/ ~okSnaps)
    /\ Logged("wipe", Outcome(okState), Outcome(okSnaps))
    /\ UNCHANGED <<now, editingTransactionId>>

-----------------------------------------------------------------------------
(* Specification *)

RecordIds == 0..MaxClock

Next ==
    \/ Tick
    \/ Reload
    \/ HideModal
    \/ \E id \in RecordIds : EditTransactionClick(id)
    \/ CancelEdit
    \/ \E d \in Descriptions, a \in AmountInputs, ty \in Types, dt \in Dates, ok \in BOOLEAN :
          SubmitTransaction(d, a, ty, dt, ok)
    \/ \E id \in RecordIds : DeleteTransactionClick(id)
    \/ \E ok \in BOOLEAN : ConfirmDeleteTransaction(ok)
    \/ \E id \in RecordIds \cup {NoId} : ShowClientForm(id)
    \/ \E n \in ClientNames, ok \in BOOLEAN : SubmitClientForm(n, ok)
    \/ \E id \in RecordIds : DeleteClientClick(id)
    \/ \E ok \in BOOLEAN : ConfirmDeleteClient(ok)
    \/ \E id \in RecordIds \cup {NoId} : ShowOpportunityForm(id)
    \/ \E t \in Titles, v \in Values, c \in RecordIds, ok \in BOOLEAN :
          SubmitOpportunityForm(t, v, c, ok)
    \/ \E id \in RecordIds, st \in StageSet, ok \in BOOLEAN : DropOnColumn(id, st, ok)
    \/ \E id \in RecordIds : DeleteOpportunityClick(id)
    \/ \E ok \in BOOLEAN : ConfirmDeleteOpportunity(ok)
    \/ \E n \in NameInputs, ok \in BOOLEAN : handleCreateSnapshot(n, ok)
    \/ \E id \in SnapshotIds : handleRestoreSnapshot(id)
    \/ \E ok \in BOOLEAN : ConfirmRestoreSnapshot(ok)
    \/ \E id \in SnapshotIds : handleDeleteSnapshot(id)
    \/ \E ok \in BOOLEAN : ConfirmDeleteSnapshot(ok)
    \/ \E d \in BackupFiles : loadBackup(d)
    \/ \E ok \in BOOLEAN : ConfirmLoadBackup(ok)
    \/ showWipeDataConfirmation
    \/ \E t \in WipeTexts : TypeWipeText(t)
    \/ \E okState \in BOOLEAN, okSnaps \in BOOLEAN : ConfirmWipe(okState, okSnaps)

Spec == Init /\ [][Next]_vars

-----------------------------------------------------------------------------
(* The history screen on its own: the page is opened on a snapshot record    *)
(* that earlier sessions left, with timestamps in any order (the clock may   *)
(* have been set back between two of them)                                   *)

\* the snapshot record holds at most MaxListed snapshots when the page is opened
MaxListed == 3

ListedNames == <<"A", "B", "C", "D">>

\* the snapshot lists the record may hold: the i-th snapshot is named
\* ListedNames[i] and has the id and timestamp of the reading it was made at
StoredSnapshotLists ==
    UNION {{[i \in 1..n |-> [id |-> ts[i], name |-> ListedNames[i], timestamp |-> ts[i],
                             data |-> getInitialState]] :
               ts \in [1..n -> 0..MaxClock]} : n \in 0..MaxListed}

InitHistory ==
    /\ now = 1
    /\ \E sns \in StoredSnapshotLists : Constructed(Absent, Json(sns))

NextHistory ==
    \/ Tick
    \/ Reload
    \/ HideModal
    \/ \E n \in NameInputs, ok \in BOOLEAN : handleCreateSnapshot(n, ok)
    \/ \E id \in SnapshotIds : handleDeleteSnapshot(id)
    \/ \E ok \in BOOLEAN : ConfirmDeleteSnapshot(ok)

SpecHistory == InitHistory /\ [][NextHistory]_vars

-----------------------------------------------------------------------------
(* Totals *)

\* no month argument (undefined), or the empty text: both are falsy
NoMonth == <<>>

\* t.date.startsWith(month), a date being <<year, month, day>> and a month
\* key <<year, month>>
startsWith(date, month) ==
    Len(month) <= Len(date) /\ SubSeq(date, 1, Len(month)) = month

RECURSIVE reduceAmounts(_)
\* txs.reduce((acc, t) => acc + t.amount, 0)
reduceAmounts(txs) ==
    IF txs = <<>> THEN Pos(0)
    ELSE DoubleAdd(reduceAmounts(SubSeq(txs, 1, Len(txs) - 1)), txs[Len(txs)].amount)

ofType(txs, type) == SelectSeq(txs, LAMBDA t : t.type = type)

\* variant of calculateTotals whose all-time figures are reduced over the
\* transactions of the month asked for
calculateTotalsScoped(s, month) ==
    LET transactionsToConsider ==
            IF month # NoMonth
            THEN SelectSeq(s.transactions, LAMBDA t : startsWith(t.date, month))
            ELSE s.transactions
    IN [totalBalance |-> reduceAmounts(transactionsToConsider),
        totalRevenue |-> reduceAmounts(ofType(transactionsToConsider, "receita")),
        totalExpenses |-> reduceAmounts(ofType(transactionsToConsider, "despesa")),
        monthBalance |-> reduceAmounts(transactionsToConsider),
        monthRevenue |-> reduceAmounts(ofType(transactionsToConsider, "receita")),
        monthExpenses |-> reduceAmounts(ofType(transactionsToConsider, "despesa"))]

\* calculateTotals(month) on the state s
calculateTotals(s, month) ==
    LET transactionsToConsider ==
            IF month # NoMonth
            THEN SelectSeq(s.transactions, LAMBDA t : startsWith(t.date, month))
            ELSE s.transactions
    IN [totalBalance |-> reduceAmounts(s.transactions),
        totalRevenue |-> reduceAmounts(ofType(s.transactions, "receita")),
        totalExpenses |-> reduceAmounts(ofType(s.transactions, "despesa")),
        monthBalance |-> reduceAmounts(transactionsToConsider),
        monthRevenue |-> reduceAmounts(ofType(transactionsToConsider, "receita")),
        monthExpenses |-> reduceAmounts(ofType(transactionsToConsider, "despesa"))]

\* the months the month selectors can be set to: the two the stored
\* transactions fall in and one that holds none
Months == {<<2024, 5>>, <<2024, 6>>, <<2024, 7>>}

\* a <= b on date texts of the form YYYY-MM-DD: the comparison of strings is
\* the comparison of <<year, month, day>> field by field
DateLeq(a, b) ==
    \/ a[1] < b[1]
    \/ a[1] = b[1] /\ a[2] < b[2]
    \/ a[1] = b[1] /\ a[2] = b[2] /\ a[3] <= b[3]

\* the figures of generateReport for the type 'financeiro' on the state s
financialReport(s, startDate, endDate) ==
    LET filteredTxs == SelectSeq(s.transactions,
                           LAMBDA t : DateLeq(startDate, t.date) /\ DateLeq(t.date, endDate))
        revenue == reduceAmounts(ofType(filteredTxs, "receita"))
        expenses == reduceAmounts(ofType(filteredTxs, "despesa"))
    IN [revenue |-> revenue, expenses |-> expenses,
        balance |-> DoubleAdd(revenue, expenses)]

\* the first and the last day of a month of 2024, as the date inputs give them
FirstDay(month) == month \o <<1>>
LastDay(month) ==
    month \o <<CASE month[2] \in {4, 6, 9, 11} -> 30 [] month[2] = 2 -> 29 [] OTHER -> 31>>

-----------------------------------------------------------------------------
(* The finance figures on their own: the page is opened on a state record    *)
(* that earlier sessions left, holding receipts entered in the form with     *)
(* amounts in cents and dates in two months; expenses are added in the       *)
(* session                                                                   *)

\* the state record holds at most MaxStored transactions when the page is opened
MaxStored == 3

\* the amounts typed in earlier sessions, in cents: 0.10, 0.20, 0.30
StoredCents == {10, 20, 30}
StoredDates == {<<2024, 5, 10>>, <<2024, 6, 1>>}

\* the transaction lists the record may hold: receipts, the i-th of them
\* created i + 1 readings before the clock's zero
StoredTransactionLists ==
    UNION {{[i \in 1..n |-> [id |-> 0 - 1 - i, description |-> "d0",
                             amount |-> signedAmount("receita", parseFloat(c[i])),
                             date |-> d[i], type |-> "receita"]] :
               c \in [1..n -> StoredCents], d \in [1..n -> StoredDates]} :
           n \in 0..MaxStored}

InitTotals ==
    /\ now = 1
    /\ \E txs \in StoredTransactionLists :
          Constructed(Json([getInitialState EXCEPT !.transactions = txs]), AbsentList)

\* the form is used to add transactions of one whole unit; storage accepts
\* every write
NextTotals ==
    \/ Tick
    \/ Reload
    \/ \E d \in Descriptions, t \in Types, dt \in Dates :
          SubmitTransaction(d, Pos(1), t, dt, TRUE)

SpecTotals == InitTotals /\ [][NextTotals]_vars

-----------------------------------------------------------------------------
(* Properties *)

\* the step just taken is a handler's setState call
SetStateStep == last'.op = "setState"

Referenced(s, id) == \E i \in 1..Len(s.opportunities) : s.opportunities[i].clientId = id

\* two snapshot collections with the same snapshots in the same order, the
\* embedded states compared structurally
SnapshotsEq(a, b) ==
    /\ Len(a) = Len(b)
    /\ \A i \in 1..Len(a) :
          /\ a[i].id = b[i].id /\ a[i].name = b[i].name /\ a[i].timestamp = b[i].timestamp
          /\ StructEq(a[i].data, b[i].data)

\* C1: after any sequence of setState calls from the loaded state, the live
\* state is the updaters applied in call order to that state, whether or not
\* the writes in between failed (applied is that fold, kept independently of
\* the writes; a restore, import, wipe or reload starts a new sequence).
C1_LiveStateIsFoldOfUpdaters == state = applied

\* a setState call whose write failed, made after an earlier failed one
C1_Witness ==
    /\ last.op = "setState" /\ last.stateWrite = "failed" /\ last.recovered
    /\ state # loadState(storedState)

\* C2: a confirmed restore of an id makes the live state structurally equal
\* to the state every snapshot created under that id was taken from (a
\* snapshot's data is the copy made of the live state at its creation).
C2_RestoreReproducesCreationState ==
    [][last'.op = "restore" =>
          \A i \in 1..Len(snapshots) :
              snapshots[i].id = modal.id => StructEq(state', snapshots[i].data)]_vars

\* C3: no two snapshots of the collection have the same id.
C3_SnapshotIdsDistinct ==
    \A i, j \in 1..Len(snapshots) : i # j => snapshots[i].id # snapshots[j].id

\* C4: a delete request for a client some opportunity references is refused
\* (a notice, no confirmation, live and persisted collections unchanged); a
\* confirmed delete of a client no opportunity references removes the client
\* with that id, keeps the other clients in order and leaves the
\* opportunities unchanged.
C4_DeleteClientGuard ==
    [][\A id \in RecordIds :
          /\ (DeleteClientClick(id) /\ Referenced(state, id)) =>
                /\ modal' = Alert("clientHasOpportunities", "Aviso")
                /\ state' = state
                /\ storedState' = storedState
          /\ ((\E ok \in BOOLEAN : ConfirmDeleteClient(ok)) /\ modal.id = id
                  /\ ~Referenced(state, id)) =>
                /\ id \notin Ids(state'.clients)
                /\ state'.clients = SelectSeq(state.clients, LAMBDA c : c.id # id)
                /\ state'.opportunities = state.opportunities]_vars

\* a refused request: the notice is shown and the referenced client is still there
C4_Witness ==
    /\ modal = Alert("clientHasOpportunities", "Aviso")
    /\ \E i \in 1..Len(state.clients) : Referenced(state, state.clients[i].id)

\* C5: loading a backup file that does not parse, or whose value lacks one of
\* the three keys, leaves the live state and the state record as they were
\* and shows an error notice instead of a confirmation.
C5_BadBackupRejected ==
    [][\A d \in BackupFiles :
          (loadBackup(d) /\ (ParseThrows(d) \/ ~(Keys \subseteq d.value.keys)
                               \/ d.syntax # "object")) =>
              /\ state' = state
              /\ storedState' = storedState
              /\ modal'.kind = "alert" /\ modal'.title = "Erro"]_vars

\* a file lacking keys was just refused while the live state holds a record
C5_Witness ==
    /\ modal = Alert("backupInvalid", "Erro")
    /\ Len(state.clients) > 0

\* C6: the live state always has the three collections.
C6_AlwaysFullTriple == WellFormed(state)

\* C7: after a handler whose write of the state record succeeded the record
\* holds the live state, and after one whose write of the snapshot record
\* succeeded that record holds the snapshot collection.
C7_StoredEqualsLiveAfterWrite ==
    /\ last.stateWrite = "ok" =>
          storedState.tag = "json" /\ StructEq(storedState.doc, state)
    /\ last.snapWrite = "ok" =>
          storedSnapshots.tag = "json" /\ SnapshotsEq(storedSnapshots.doc, snapshots)

\* a setState call just wrote a state that holds a negative zero amount
C7_Witness ==
    /\ last.op = "setState" /\ last.stateWrite = "ok"
    /\ \E i \in 1..Len(state.transactions) : state.transactions[i].amount = Neg(0)

\* C8: when the write of a setState call fails, the live state is still the
\* updater's result, the state record keeps its content, and the handler
\* runs to its end (it leaves the modal hidden).
C8_FailedWriteStillAdvances ==
    [][(SetStateStep /\ last'.stateWrite = "failed") =>
          /\ state' = applied'
          /\ storedState' = storedState
          /\ modal' = NoModal]_vars

\* a setState call just failed to write and the record lags behind the live state
C8_Witness ==
    /\ last.op = "setState" /\ last.stateWrite = "failed"
    /\ storedState.tag = "json" /\ ~StructEq(storedState.doc, state)

\* C9: after a handler one of whose writes failed, the user is shown a
\* warning or an error.
C9_FailedWriteReported ==
    (last.stateWrite = "failed" \/ last.snapWrite = "failed") =>
        modal.kind = "alert" /\ modal.title \in {"Aviso", "Erro"}

\* C10: the first setState call whose write succeeds after failed ones leaves
\* in the state record the full live state, the effects of the unpersisted
\* calls included (applied folds every updater since the state was loaded).
C10_NextWritePersistsAll ==
    (last.op = "setState" /\ last.stateWrite = "ok" /\ last.recovered) =>
        /\ storedState.tag = "json"
        /\ StructEq(storedState.doc, applied)
        /\ loadState(storedState) = JsonState(state)

\* such a call just ran, and the live state differs from the one loaded
C10_Witness ==
    /\ last.op = "setState" /\ last.stateWrite = "ok" /\ last.recovered
    /\ ~unsaved

\* what the constructor leaves: each record that is absent or does not parse
\* gives its empty value, each record that parses gives its content, whatever
\* the other record is; with an empty state the first screen renders
LoadedIndependently ==
    /\ storedState.tag \in {"absent", "corrupt"} =>
          state = getInitialState /\ ~RenderThrows("painel", "pipeline", state)
    /\ storedState.tag = "json" => state = storedState.doc
    /\ storedSnapshots.tag \in {"absent", "corrupt"} => snapshots = <<>>
    /\ storedSnapshots.tag = "json" => snapshots = storedSnapshots.doc
    /\ modal = NoModal

\* C11: at construction the two records are loaded independently: a record
\* that is absent or fails to parse yields its empty value and changes neither
\* what is loaded for the other record nor whether the application starts.
C11_RecordsLoadedIndependently == last.op = "construct" => LoadedIndependently

\* a construction that found no usable state record and a snapshot record
\* holding a snapshot
C11_Witness ==
    /\ last.op = "construct"
    /\ storedState.tag \in {"absent", "corrupt"}
    /\ storedSnapshots.tag = "json" /\ Len(snapshots) > 0

\* C12: the document saveBackup produces has exactly the three top-level
\* keys transactions, clients and opportunities.
C12_BackupHasExactlyThreeKeys == saveBackup(state).keys = Keys

\* C13: loading and confirming the document that saveBackup produced from
\* the live state S yields a live state structurally equal to S (the
\* confirmation is only offered when S has the three collections).
C13_ExportImportRoundTrip ==
    [][(last'.op = "import" /\ modal.file = saveBackup(state)) =>
          StructEq(state', state)]_vars

\* an import just brought in a state holding a transaction: none of the other
\* files holds one, so the file was the backup of the live state
C13_Witness ==
    /\ last.op = "import"
    /\ Len(state.transactions) > 0

\* the import confirmation is what the modal shows
ImportPending == modal.kind = "confirm" /\ modal.msg = "loadBackup"

\* C14: a file that passes the key test changes nothing when it is loaded;
\* while its confirmation is shown no step of the running application but
\* the confirm changes the live state or the state record; and the state is
\* replaced by a document only in the confirm step of the dialog that holds
\* that document (a cancelled or replaced dialog's document is never applied).
C14_ImportOnlyOnConfirm ==
    [][/\ \A d \in BackupFiles :
             (loadBackup(d) /\ d.syntax = "object" /\ Keys \subseteq d.value.keys) =>
                 state' = state /\ storedState' = storedState /\ modal' = ConfirmFile(d.value)
       /\ (ImportPending /\ last'.op \notin {"import", "construct"}) =>
             state' = state /\ storedState' = storedState
       /\ last'.op = "import" => ImportPending /\ state' = modal.file]_vars

\* the confirmation of a file is shown and the live state, which holds a
\* transaction, is not the file's
C14_Witness ==
    /\ ImportPending
    /\ modal.file # saveBackup(state)
    /\ Len(state.transactions) > 0

\* C15: a snapshot keeps its id, name, timestamp and data from its creation
\* to its deletion: a step of the running application other than a snapshot
\* delete or a wipe leaves every snapshot as and where it is (a creation
\* appends), and a snapshot delete leaves the remaining ones as they are, in
\* their order.
C15_SnapshotsImmutable ==
    [][/\ last'.op \notin {"deleteSnapshot", "wipe", "construct"} =>
             /\ Len(snapshots') >= Len(snapshots)
             /\ \A i \in 1..Len(snapshots) : snapshots'[i] = snapshots[i]
       /\ last'.op = "deleteSnapshot" =>
             \A i \in 1..Len(snapshots') :
                 \E j \in i..Len(snapshots) : snapshots'[i] = snapshots[j]]_vars

\* the live state was just changed by setState and differs from the data of
\* a snapshot that is still in the collection
C15_Witness ==
    /\ last.op = "setState"
    /\ Len(snapshots) > 0
    /\ ~StructEq(snapshots[1].data, state)

\* C16: a confirmed restore leaves the snapshot collection and the snapshot
\* record unchanged; a confirmed snapshot delete leaves the live state and the
\* state record unchanged.
C16_RestoreAndDeleteFrames ==
    [][/\ last'.op = "restore" =>
             snapshots' = snapshots /\ storedSnapshots' = storedSnapshots
       /\ last'.op = "deleteSnapshot" =>
             state' = state /\ storedState' = storedState]_vars

\* a restore just replaced a live state that held a record, and the
\* snapshot restored is still in the collection
C16_Witness ==
    /\ last.op = "restore"
    /\ modal = Alert("restored", "Sucesso")
    /\ \E i \in 1..Len(snapshots) : StructEq(snapshots[i].data, state)
    /\ storedState.tag = "json" /\ storedSnapshots.tag = "json"

\* seq without its k-th element
RemoveAt(seq, k) ==
    [i \in 1..(Len(seq) - 1) |-> IF i < k THEN seq[i] ELSE seq[i + 1]]

\* C17: a confirmed delete of a snapshot id removes exactly one snapshot, one
\* that has the id, keeps the others in their order, and a write that
\* succeeds leaves the resulting collection in the snapshot record.
C17_DeleteRemovesExactlyOne ==
    [][last'.op = "deleteSnapshot" =>
          /\ \E k \in 1..Len(snapshots) :
                snapshots[k].id = modal.id /\ snapshots' = RemoveAt(snapshots, k)
          /\ last'.snapWrite = "ok" =>
                storedSnapshots' = Json(JsonSnapshots(snapshots'))]_vars

\* the live state, the snapshot collection and the two records stay as they are
NothingChanged ==
    /\ state' = state /\ snapshots' = snapshots
    /\ storedState' = storedState /\ storedSnapshots' = storedSnapshots

\* C18: a snapshot creation whose name is only white space, and a restore or
\* a delete of an id no snapshot has, change neither the live state nor the
\* snapshot collection nor the two records (the first shows a notice, the
\* other two show nothing).
C18_RejectedSnapshotOperations ==
    [][/\ \A ok \in BOOLEAN : handleCreateSnapshot(" ", ok) =>
             NothingChanged /\ modal' = Alert("snapshotNameMissing", "Aviso")
       /\ \A id \in SnapshotIds :
             (handleRestoreSnapshot(id) /\ id \notin Ids(snapshots)) =>
                 NothingChanged /\ modal' = modal
       /\ \A id \in SnapshotIds :
             (handleDeleteSnapshot(id) /\ id \notin Ids(snapshots)) =>
                 NothingChanged /\ modal' = modal]_vars

\* a creation under a blank name was just refused while a snapshot exists
C18_Witness ==
    /\ modal = Alert("snapshotNameMissing", "Aviso")
    /\ Len(snapshots) > 0
    /\ \E id \in SnapshotIds : id \notin Ids(snapshots)

\* listing holds the snapshots sns ordered by timestamp descending, those
\* with equal timestamps in the order they have in sns
IsStableListing(listing, sns) ==
    /\ Len(listing) = Len(sns)
    /\ \E p \in [1..Len(sns) -> 1..Len(sns)] :
          /\ \A i, j \in 1..Len(sns) : i # j => p[i] # p[j]
          /\ \A i \in 1..Len(sns) : listing[i] = sns[p[i]]
          /\ \A i, j \in 1..Len(sns) :
                i < j => \/ sns[p[i]].timestamp > sns[p[j]].timestamp
                         \/ (sns[p[i]].timestamp = sns[p[j]].timestamp /\ p[i] < p[j])

\* C19: the snapshot listing is ordered by timestamp descending with equal
\* timestamps in insertion order, and the handlers that render it leave the
\* collection in insertion order (a creation appends, whatever the timestamps).
C19_ListingNewestFirst ==
    /\ [](IsStableListing(sortedSnapshots(snapshots), snapshots))
    /\ [][last'.op = "createSnapshot" =>
             /\ Len(snapshots') = Len(snapshots) + 1
             /\ SubSeq(snapshots', 1, Len(snapshots)) = snapshots]_vars

\* a snapshot was just created behind one with a later timestamp and one with
\* the same timestamp, so the listing is not the collection's order
C19_Witness ==
    /\ last.op = "createSnapshot"
    /\ Len(snapshots) >= 3
    /\ \E i, j \in 1..(Len(snapshots) - 1) :
          /\ snapshots[i].timestamp > snapshots[Len(snapshots)].timestamp
          /\ snapshots[j].timestamp = snapshots[Len(snapshots)].timestamp
          /\ snapshots[j] # snapshots[Len(snapshots)]
    /\ sortedSnapshots(snapshots) # snapshots

\* date.slice(0, 7): the YYYY-MM month key a date begins with
MonthKey(date) == SubSeq(date, 1, 2)

MonthKeys(s) == {MonthKey(s.transactions[i].date) : i \in 1..Len(s.transactions)}

\* the ways of listing the month keys once each
MonthOrders(s) ==
    {o \in [1..Cardinality(MonthKeys(s)) -> MonthKeys(s)] :
        \A m \in MonthKeys(s) : \E i \in DOMAIN o : o[i] = m}

RECURSIVE SumOfMonths(_, _, _)
\* the monthly figure of calculateTotals(m) added up over the months listed
SumOfMonths(s, order, figure) ==
    IF order = <<>> THEN Pos(0)
    ELSE DoubleAdd(SumOfMonths(s, SubSeq(order, 1, Len(order) - 1), figure),
                   calculateTotals(s, order[Len(order)])[figure])

AllTimeFigures ==
    {<<"totalBalance", "monthBalance">>, <<"totalRevenue", "monthRevenue">>,
     <<"totalExpenses", "monthExpenses">>}

\* C20: whenever the transactions are there (their dates all begin with a
\* month key), each all-time figure of calculateTotals (balance, revenue,
\* expenses) is equal to the sum of the corresponding monthly figure of
\* calculateTotals(m) over the distinct month keys m of the transactions;
\* the months may be added up in whichever order makes the two agree.
C20_AllTimeIsSumOfMonths ==
    Has(state, "transactions") =>
        \A totals \in {calculateTotals(state, NoMonth)} :
            \A f \in AllTimeFigures :
                \E order \in MonthOrders(state) :
                    Num(totals[f[1]]) = Num(SumOfMonths(state, order, f[2]))

RECURSIVE SumOfKept(_, _, _, _)
\* acc plus the amounts of the transactions at the positions in keep, from
\* position i on, in list order
SumOfKept(txs, keep, i, acc) ==
    IF i > Len(txs) THEN acc
    ELSE SumOfKept(txs, keep, i + 1,
                   IF i \in keep THEN DoubleAdd(acc, txs[i].amount) ELSE acc)

\* the positions of the transactions of s dated in month m
InMonth(s, m) ==
    {i \in 1..Len(s.transactions) :
        s.transactions[i].date[1] = m[1] /\ s.transactions[i].date[2] = m[2]}

Typed(s, type) == {i \in 1..Len(s.transactions) : s.transactions[i].type = type}

\* C21: for every month key m, calculateTotals(m) returns as monthly balance
\* the sum (in list order) of the amounts of exactly the transactions dated in
\* m, as monthly revenue the sum over those of type receita, as monthly
\* expenses the sum over those of type despesa (zero when none matches); its
\* all-time figures are taken over every transaction and are those of the
\* call without a month.
C21_MonthlyAndAllTimeFigures ==
    Has(state, "transactions") =>
        \A all \in {calculateTotals(state, NoMonth)} :
            \A m \in Months :
                \A r \in {calculateTotals(state, m)} :
                    LET txs == state.transactions
                        every == 1..Len(txs)
                    IN /\ r.monthBalance = SumOfKept(txs, InMonth(state, m), 1, Pos(0))
                       /\ r.monthRevenue =
                             SumOfKept(txs, InMonth(state, m) \cap Typed(state, "receita"), 1, Pos(0))
                       /\ r.monthExpenses =
                             SumOfKept(txs, InMonth(state, m) \cap Typed(state, "despesa"), 1, Pos(0))
                       /\ r.totalBalance = SumOfKept(txs, every, 1, Pos(0))
                       /\ r.totalRevenue = SumOfKept(txs, Typed(state, "receita"), 1, Pos(0))
                       /\ r.totalExpenses = SumOfKept(txs, Typed(state, "despesa"), 1, Pos(0))
                       /\ r.totalBalance = all.totalBalance
                       /\ r.totalRevenue = all.totalRevenue
                       /\ r.totalExpenses = all.totalExpenses

\* a receipt and an expense in one month, a transaction in another month, and
\* a month that has none
C21_Witness ==
    /\ Has(state, "transactions")
    /\ \E m1, m2 \in Months :
          /\ m1 # m2
          /\ InMonth(state, m1) \cap Typed(state, "receita") # {}
          /\ InMonth(state, m1) \cap Typed(state, "despesa") # {}
          /\ InMonth(state, m2) # {}
          /\ ~IsZero(calculateTotals(state, m1).monthBalance)
    /\ \E m \in Months : InMonth(state, m) = {}

\* a >= 0 and a <= 0 as JavaScript compares numbers (-0 is 0)
NonNegative(a) == IsZero(a) \/ ~a.neg
NonPositive(a) == IsZero(a) \/ a.neg

\* C23: every transaction's type agrees with the sign of its amount: receita
\* has an amount >= 0 and despesa an amount <= 0.
C23_TypeAgreesWithSign ==
    Has(state, "transactions") =>
        \A i \in 1..Len(state.transactions) :
            /\ state.transactions[i].type = "receita" =>
                  NonNegative(state.transactions[i].amount)
            /\ state.transactions[i].type = "despesa" =>
                  NonPositive(state.transactions[i].amount)

\* C24: no two transactions of the live state share an id.
C24_TransactionIdsDistinct ==
    Has(state, "transactions") =>
        \A i, j \in 1..Len(state.transactions) :
            state.transactions[i].id = state.transactions[j].id => i = j

\* C25: a submission of the opportunity form opened for a new opportunity
\* appends one opportunity whose clientId is the id of a client of the live
\* state at that moment (so none is added while there is no client).
C25_NewOpportunityReferencesClient ==
    [][(modal.kind = "opportunityForm" /\ modal.id = NoId /\ SetStateStep) =>
          /\ Has(state, "clients")
          /\ Len(state'.opportunities) = Len(state.opportunities) + 1
          /\ \E c \in 1..Len(state.clients) :
                state.clients[c].id = state'.opportunities[Len(state'.opportunities)].clientId
          /\ state'.clients = state.clients]_vars

\* an opportunity was just added for the one client there is
C25_Witness ==
    /\ last.op = "setState"
    /\ Has(state, "clients") /\ Has(state, "opportunities")
    /\ Len(state.clients) = 1 /\ Len(state.opportunities) = 1
    /\ state.opportunities[1].id = now
    /\ state.opportunities[1].clientId = state.clients[1].id
    /\ modal = NoModal

\* the step replaces the live state as a whole (a restore, an import, a wipe
\* or a page load) instead of updating it
ReplacesState == last'.op \in {"restore", "import", "wipe", "construct"}

\* C26: an opportunity is created in stage Lead; in a step that updates the
\* state, the stage of an opportunity changes only by a drop of that
\* opportunity, which changes nothing but that stage and leaves every other
\* opportunity as it is.
C26_StageChangesOnlyByDrop ==
    [][(~ReplacesState /\ Has(state, "opportunities") /\ Has(state', "opportunities")) =>
          /\ (Len(state'.opportunities) = Len(state.opportunities) + 1) =>
                state'.opportunities[Len(state'.opportunities)].stage = "Lead"
          /\ (Len(state'.opportunities) = Len(state.opportunities)) =>
                \A i \in 1..Len(state.opportunities) :
                    state'.opportunities[i].stage # state.opportunities[i].stage =>
                        /\ SetStateStep /\ ModalHidden
                        /\ state'.opportunities[i]
                              = [state.opportunities[i] EXCEPT
                                    !.stage = state'.opportunities[i].stage]
                        /\ \A j \in 1..Len(state.opportunities) :
                              j # i => state'.opportunities[j] = state.opportunities[j]]_vars

\* the step is a submission of the transaction form while an edit is selected
\* (handleTransactionFormSubmit is the one handler that clears the selection
\* in a setState step)
EditSubmission ==
    SetStateStep /\ editingTransactionId # NoId /\ editingTransactionId' = NoId

\* C27: a submission of the filled transaction form that does not append a
\* transaction (an edit is selected) replaces the fields of a transaction of
\* the state, the one that has the selected id, whatever came before.
C27_SubmissionChangesTransactions ==
    [][EditSubmission =>
          /\ Len(state'.transactions) = Len(state.transactions)
          /\ \E i \in 1..Len(state.transactions) :
                /\ state.transactions[i].id = editingTransactionId
                /\ state'.transactions[i].id = editingTransactionId
                /\ state'.transactions[i].description \in Descriptions]_vars

\* the confirmation of a client delete is open
DeleteClientPending == modal.kind = "confirm" /\ modal.msg = "deleteClient"

\* C28: from the request that passed the referential check to the removal,
\* i.e. for as long as the confirmation of a client delete is open, the
\* client is in the live state and no opportunity of the live state
\* references it; the removal takes it out with the opportunities as they are.
C28_NoReferenceWhileDeletePending ==
    /\ [](DeleteClientPending =>
             modal.id \in Ids(state.clients) /\ ~Referenced(state, modal.id))
    /\ [][(DeleteClientPending /\ SetStateStep) =>
             /\ ~Referenced(state', modal.id)
             /\ modal.id \notin Ids(state'.clients)
             /\ state'.opportunities = state.opportunities]_vars

\* the confirmation is open for one client while an opportunity references
\* another
C28_Witness ==
    /\ DeleteClientPending
    /\ Len(state.opportunities) > 0
    /\ \E i \in 1..Len(state.clients) : Referenced(state, state.clients[i].id)

\* the wipe whose two writes succeeded
WipedAndSaved == last.op = "wipe" /\ last.stateWrite = "ok" /\ last.snapWrite = "ok"

\* C29: a confirmed wipe leaves the empty triple as live state and no
\* snapshot; when both of its writes succeed the two records load as the
\* empty triple and the empty list, and the construction that follows it
\* starts from them.
C29_WipeThenConstruction ==
    /\ [][last'.op = "wipe" =>
             /\ state' = getInitialState /\ snapshots' = <<>>
             /\ last'.stateWrite = "ok" => loadState(storedState') = getInitialState
             /\ last'.snapWrite = "ok" => loadSnapshots(storedSnapshots') = <<>>]_vars
    /\ [][(WipedAndSaved /\ last'.op = "construct") =>
             state' = getInitialState /\ snapshots' = <<>>]_vars

\* both writes of a wipe succeeded after a session that had stored a snapshot
\* and a state with a record in it
C29_Witness ==
    /\ WipedAndSaved
    /\ spent = MaxBudget
    /\ storedState = Json(getInitialState) /\ storedSnapshots = Json(<<>>)
    /\ state = getInitialState /\ snapshots = <<>>

\* C30: for every month, the balance of the financial report over the range
\* from the first to the last day of the month is the monthly balance of
\* calculateTotals for that month.
C30_ReportBalanceIsMonthBalance ==
    \A m \in Months :
        Num(financialReport(state, FirstDay(m), LastDay(m)).balance)
            = Num(calculateTotals(state, m).monthBalance)
====
